---- MODULE Spec2Model ----
(***************************************************************************)
(* Watson: a catch-all HTTP relay (src/watson/fastapi.py).  Every inbound  *)
(* request is intercepted by catch_all_middleware, summarised, posted to   *)
(* Slack's chat.postMessage by send_to_slack, and answered with a JSON     *)
(* body describing the outcome of the post.                                *)
(*                                                                         *)
(* Python strings on which the code computes (comparison, lower(), `in`,   *)
(* concatenation) are sequences of one-character strings.  Method and path *)
(* are only copied, so they stay atomic strings.  Request bodies are       *)
(* run-length encoded so that the 35000 character limit is kept as it is.  *)
(***************************************************************************)
EXTENDS Integers, Sequences, FiniteSets, TLC

VARIABLES
    config,         \* watson.config.config, loaded once at import
    pc,             \* position of the request task
    request,        \* the inbound request being handled
    body_text,      \* catch_all_middleware: body_text
    posts,          \* payloads handed to client.post while handling the request
    reply,          \* what the last client.post did
    res,            \* catch_all_middleware: res
    error,          \* catch_all_middleware: error
    responses,      \* HTTP responses returned for the request
    call_next_calls,\* number of times call_next was invoked for the request
    route_runs      \* route handler bodies executed for the request

vars == <<config, pc, request, body_text, posts, reply, res, error, responses,
          call_next_calls, route_runs>>

(***************************************************************************)
(* String literals of the source.                                          *)
(***************************************************************************)
S_channel_not_found ==
    <<"c","h","a","n","n","e","l","_","n","o","t","_","f","o","u","n","d">>
S_not_in_channel ==
    <<"n","o","t","_","i","n","_","c","h","a","n","n","e","l">>
S_channel_is_archived ==
    <<"c","h","a","n","n","e","l","_","i","s","_","a","r","c","h","i","v","e","d">>
S_channel ==
    <<"c","h","a","n","n","e","l">>
S_binary_data ==
    <<"[","b","i","n","a","r","y"," ","d","a","t","a","]">>
S_empty_body ==
    <<"[","e","m","p","t","y"," ","b","o","d","y","]">>
S_could_not_read_body ==
    <<"[","c","o","u","l","d"," ","n","o","t"," ","r","e","a","d"," ","b","o","d","y","]">>
S_truncated ==
    <<".",".","."," ","[","t","r","u","n","c","a","t","e","d","]">>
M_success ==
    <<"R","e","q","u","e","s","t"," ","p","r","o","c","e","s","s","e","d"," ","s","u","c","c","e","s","s","f","u","l","l","y"," ","a","n","d"," ","s","e","n","t"," ","t","o"," ","S","l","a","c","k">>
M_custom_channel ==
    <<" ","(","c","u","s","t","o","m"," ","c","h","a","n","n","e","l",":"," ">>
M_close ==
    <<")">>
M_not_found ==
    <<"R","e","q","u","e","s","t"," ","p","r","o","c","e","s","s","e","d",","," ","b","u","t"," ","S","l","a","c","k"," ","c","h","a","n","n","e","l"," ","n","o","t"," ","f","o","u","n","d",":"," ">>
M_not_in ==
    <<"R","e","q","u","e","s","t"," ","p","r","o","c","e","s","s","e","d",","," ","b","u","t"," ","b","o","t"," ","i","s"," ","n","o","t"," ","i","n"," ","S","l","a","c","k"," ","c","h","a","n","n","e","l",":"," ">>
M_archived ==
    <<"R","e","q","u","e","s","t"," ","p","r","o","c","e","s","s","e","d",","," ","b","u","t"," ","S","l","a","c","k"," ","c","h","a","n","n","e","l"," ","i","s"," ","a","r","c","h","i","v","e","d",":"," ">>
M_channel_error ==
    <<"R","e","q","u","e","s","t"," ","p","r","o","c","e","s","s","e","d",","," ","b","u","t"," ","S","l","a","c","k"," ","c","h","a","n","n","e","l"," ","e","r","r","o","r"," ","(">>
M_channel_error_sep ==
    <<")",":"," ">>
M_failed ==
    <<"R","e","q","u","e","s","t"," ","p","r","o","c","e","s","s","e","d",","," ","b","u","t"," ","f","a","i","l","e","d"," ","t","o"," ","s","e","n","d"," ","t","o"," ","S","l","a","c","k">>
M_attempted ==
    <<" ","(","a","t","t","e","m","p","t","e","d"," ","c","u","s","t","o","m"," ","c","h","a","n","n","e","l",":"," ">>
M_invalid_key ==
    <<"I","n","v","a","l","i","d"," ","k","e","y">>
M_sent ==
    <<"M","e","s","s","a","g","e"," ","s","e","n","t"," ","t","o"," ","S","l","a","c","k">>

(***************************************************************************)
(* Strings the environment supplies: Slack error codes, exception texts.   *)
(***************************************************************************)
S_invalid_auth ==
    <<"i","n","v","a","l","i","d","_","a","u","t","h">>
S_CHANNEL_FULL ==
    <<"C","H","A","N","N","E","L","_","F","U","L","L">>
S_ConnectError ==
    <<"C","o","n","n","e","c","t","E","r","r","o","r">>
S_Channel_closed ==
    <<"C","h","a","n","n","e","l"," ","c","l","o","s","e","d">>
S_Expecting_value ==
    <<"E","x","p","e","c","t","i","n","g"," ","v","a","l","u","e">>
S_no_attribute_get ==
    <<"n","o"," ","a","t","t","r","i","b","u","t","e"," ","'","g","e","t","'">>
S_json_text ==
    <<"{","\"","t","e","x","t","\"",":","\"">>
S_json_key ==
    <<"\"",",","\"","k","e","y","\"",":","\"">>
S_json_end ==
    <<"\"","}">>
S_C0DEFAULT ==
    <<"C","0","D","E","F">>
S_C1OVERRIDE ==
    <<"C","1","O","V","R">>
S_secret ==
    <<"s","3","c","r","e","t">>
S_guess ==
    <<"g","u","e","s","s">>
S_hi ==
    <<"h","i">>
S_token ==
    <<"x","o","x","b">>

(***************************************************************************)
(* Python values: None, bool, int, str, list, dict.  One record shape for  *)
(* all of them; for a list or a dict only the number of entries is kept.   *)
(***************************************************************************)
PyNone == [t |-> "none", b |-> FALSE, i |-> 0, s |-> <<>>]
PyStr(s) == [t |-> "str", b |-> FALSE, i |-> 0, s |-> s]
PyInt(i) == [t |-> "int", b |-> FALSE, i |-> i, s |-> <<>>]
PyBool(b) == [t |-> "bool", b |-> b, i |-> 0, s |-> <<>>]
PyList(n) == [t |-> "list", b |-> FALSE, i |-> n, s |-> <<>>]
PyDict(n) == [t |-> "dict", b |-> FALSE, i |-> n, s |-> <<>>]

\* bool(v)
Truthy(v) ==
    CASE v.t = "none" -> FALSE
      [] v.t = "bool" -> v.b
      [] v.t = "int"  -> v.i # 0
      [] v.t = "str"  -> v.s # <<>>
      [] OTHER        -> v.i > 0

\* a or b
PyOr(a, b) == IF Truthy(a) THEN a ELSE b

\* v == "<literal>"
PyEqStr(v, lit) == v.t = "str" /\ v.s = lit

S_UPPER ==
    <<"A","B","C","D","E","F","G","H","I","J","K","L","M","N","O","P","Q","R","S","T","U","V","W","X","Y","Z">>
S_LOWER ==
    <<"a","b","c","d","e","f","g","h","i","j","k","l","m","n","o","p","q","r","s","t","u","v","w","x","y","z">>

\* str.lower(), on the ASCII letters
LowerChar(c) ==
    IF \E k \in 1..Len(S_UPPER) : S_UPPER[k] = c
    THEN S_LOWER[CHOOSE k \in 1..Len(S_UPPER) : S_UPPER[k] = c]
    ELSE c

Lower(s) == [k \in 1..Len(s) |-> LowerChar(s[k])]

\* needle in hay
Contains(needle, hay) ==
    \E k \in 0..(Len(hay) - Len(needle)) :
        SubSeq(hay, k + 1, k + Len(needle)) = needle

(***************************************************************************)
(* Request bodies.  A byte string is a sequence of runs [u, n]: the unit u *)
(* repeated n >= 1 times.  A unit is one ASCII byte (a one-character       *)
(* string) or one of the named non-ASCII units below.  A text is a         *)
(* sequence of runs of characters in the same way.                         *)
(***************************************************************************)
MaxBodyChars == 35000

\* how far around the limit the lengths of the long bodies range
LenSlack == 1

Run(u, n) == [u |-> u, n |-> n]

U_E9 == "<C3A9>"   \* the two bytes C3 A9: UTF-8 of U+00E9
U_C3 == "<C3>"     \* the lead byte C3 alone
U_A9 == "<A9>"     \* the continuation byte A9 alone
U_FF == "<FF>"     \* the byte FF, in no UTF-8 encoding
C_E9 == "e-acute"  \* the character U+00E9

IsAsciiUnit(u) == u \notin {U_E9, U_C3, U_A9, U_FF}

\* a str literal as a text
Lit(s) == [k \in 1..Len(s) |-> Run(s[k], 1)]

\* len(text)
RECURSIVE TextLen(_)
TextLen(t) == IF t = <<>> THEN 0 ELSE Head(t).n + TextLen(Tail(t))

\* text[:k]
RECURSIVE TakeText(_, _)
TakeText(t, k) ==
    IF t = <<>> \/ k <= 0 THEN <<>>
    ELSE IF Head(t).n <= k
         THEN <<Head(t)>> \o TakeText(Tail(t), k - Head(t).n)
         ELSE <<Run(Head(t).u, k)>>

\* text[i-1], for 1 <= i <= len(text)
RECURSIVE CharAt(_, _)
CharAt(t, i) ==
    IF i <= Head(t).n THEN Head(t).u ELSE CharAt(Tail(t), i - Head(t).n)

\* bytes.decode('utf-8'): strict, so any malformed sequence raises
RECURSIVE Utf8Decode(_, _, _)
Utf8Decode(bytes, pending, acc) ==
    IF bytes = <<>>
    THEN [ok |-> ~pending, text |-> acc]
    ELSE LET r == Head(bytes) IN
         IF pending
         THEN IF r.u = U_A9
              THEN IF r.n = 1
                   THEN Utf8Decode(Tail(bytes), FALSE, Append(acc, Run(C_E9, 1)))
                   ELSE [ok |-> FALSE, text |-> acc]
              ELSE [ok |-> FALSE, text |-> acc]
         ELSE IF IsAsciiUnit(r.u)
              THEN Utf8Decode(Tail(bytes), FALSE, Append(acc, r))
              ELSE IF r.u = U_E9
              THEN Utf8Decode(Tail(bytes), FALSE, Append(acc, Run(C_E9, r.n)))
              ELSE IF r.u = U_C3 /\ r.n = 1
              THEN Utf8Decode(Tail(bytes), TRUE, acc)
              ELSE [ok |-> FALSE, text |-> acc]

decode(bytes) == Utf8Decode(bytes, FALSE, <<>>)

\* mutant: the limit is compared with >= instead of >
BodyText_at_limit(body) ==
    IF ~body.readable
    THEN Lit(S_could_not_read_body)
    ELSE IF body.bytes # <<>>
         THEN LET d == decode(body.bytes) IN
              IF d.ok
              THEN IF TextLen(d.text) >= MaxBodyChars
                   THEN TakeText(d.text, MaxBodyChars) \o Lit(S_truncated)
                   ELSE d.text
              ELSE Lit(S_binary_data)
         ELSE Lit(S_empty_body)

\* catch_all_middleware, the capture of the body
BodyText(body) ==
    IF ~body.readable
    THEN Lit(S_could_not_read_body)
    ELSE IF body.bytes # <<>>
         THEN LET d == decode(body.bytes) IN
              IF d.ok
              THEN IF TextLen(d.text) > MaxBodyChars
                   THEN TakeText(d.text, MaxBodyChars) \o Lit(S_truncated)
                   ELSE d.text
              ELSE Lit(S_binary_data)
         ELSE Lit(S_empty_body)

(***************************************************************************)
(* The inbound requests considered.                                        *)
(***************************************************************************)
NearLimit == (MaxBodyChars - LenSlack)..(MaxBodyChars + LenSlack)

NoMessage == [valid |-> FALSE, text |-> <<>>, key |-> <<>>]

\* the bytes of the JSON document {"text": text, "key": key}
JsonBytes(text, key) ==
    Lit(S_json_text) \o Lit(text) \o Lit(S_json_key) \o Lit(key) \o Lit(S_json_end)

RawByteStrings ==
    {<<>>, <<Run("a", 1)>>, <<Run(U_E9, 1)>>,
     <<Run(U_FF, 1)>>, <<Run("a", 2), Run(U_FF, 1)>>,
     <<Run(U_C3, 1)>>, <<Run(U_A9, 1)>>, <<Run(U_C3, 2)>>,
     <<Run(U_C3, 1), Run("a", 1)>>, <<Run(U_C3, 1), Run(U_A9, 2)>>,
     <<Run(U_C3, 1), Run(U_A9, 1)>>}
    \cup {<<Run("a", n)>> : n \in NearLimit}
    \cup {<<Run(U_E9, n)>> : n \in NearLimit}
    \cup {<<Run("a", n - 1), Run(U_E9, 1)>> : n \in NearLimit}
    \cup {<<Run("b", 1), Run(U_E9, n - 1)>> : n \in NearLimit}

Bodies ==
    {[readable |-> FALSE, bytes |-> <<>>, msg |-> NoMessage]}
    \cup {[readable |-> TRUE, bytes |-> b, msg |-> NoMessage] : b \in RawByteStrings}
    \cup {[readable |-> TRUE, bytes |-> JsonBytes(S_hi, k),
           msg |-> [valid |-> TRUE, text |-> S_hi, key |-> k]] :
              k \in {S_secret, S_guess}}

Methods == {"GET", "POST"}
Paths == {"/", "/health", "/slack/test", "/hook"}
HeaderSets == {<<>>, <<<<"host", "watson">>>>}

\* request.query_params.get("channel_id"): None when the parameter is absent
ChannelParams == {PyNone, PyStr(<<>>), PyStr(S_C1OVERRIDE)}

Requests ==
    [method : Methods, path : Paths, headers : HeaderSets,
     channel_id : ChannelParams, body : Bodies]

Configs ==
    [slack_channel_id : {S_C0DEFAULT}, slack_bot_token : {S_token},
     secret_key : {S_secret}]

(***************************************************************************)
(* What client.post and response.json() can do for one call.               *)
(*   raises   : the transport call raises, str(e) = exc                    *)
(*   not_json : the reply is not JSON, response.json() raises              *)
(*   not_dict : the reply is a JSON array, result.get raises               *)
(*   dict     : the reply is a JSON object with the given ok and error     *)
(***************************************************************************)
Reply(kind, exc, has_ok, ok, has_error, err) ==
    [kind |-> kind, exc |-> exc, has_ok |-> has_ok, ok |-> ok,
     has_error |-> has_error, error |-> err]

ErrorFields ==
    {<<FALSE, PyNone>>, <<TRUE, PyNone>>, <<TRUE, PyStr(<<>>)>>,
     <<TRUE, PyStr(S_channel_not_found)>>, <<TRUE, PyStr(S_not_in_channel)>>,
     <<TRUE, PyStr(S_channel_is_archived)>>, <<TRUE, PyStr(S_CHANNEL_FULL)>>,
     <<TRUE, PyStr(S_invalid_auth)>>,
     <<TRUE, PyInt(42)>>, <<TRUE, PyInt(0)>>, <<TRUE, PyBool(TRUE)>>,
     <<TRUE, PyList(1)>>, <<TRUE, PyList(0)>>, <<TRUE, PyDict(1)>>}

OkFields ==
    {<<FALSE, PyNone>>, <<TRUE, PyBool(FALSE)>>, <<TRUE, PyBool(TRUE)>>,
     <<TRUE, PyNone>>, <<TRUE, PyInt(1)>>, <<TRUE, PyInt(0)>>}

\* no client.post has returned yet
NoReply == Reply("none", <<>>, FALSE, PyNone, FALSE, PyNone)

Replies ==
    {Reply("raises", e, FALSE, PyNone, FALSE, PyNone) :
        e \in {<<>>, S_ConnectError, S_Channel_closed}}
    \cup {Reply("not_json", S_Expecting_value, FALSE, PyNone, FALSE, PyNone),
          Reply("not_dict", S_no_attribute_get, FALSE, PyNone, FALSE, PyNone)}
    \cup {Reply("dict", <<>>, o[1], o[2], e[1], e[2]) :
            o \in OkFields, e \in ErrorFields}

(***************************************************************************)
(* send_to_slack                                                           *)
(***************************************************************************)
\* the f-string: the four interpolated values (message is always a str here,
\* so the json.dumps branch is not taken)
formatted_message(message, method, path, headers) ==
    [method |-> method, path |-> path, message |-> message, headers |-> headers]

\* the JSON body and the Authorization header given to client.post
payload(message, method, path, headers, channel_id, cfg) ==
    [channel |-> PyOr(channel_id, PyStr(cfg.slack_channel_id)).s,
     text |-> formatted_message(message, method, path, headers),
     parse |-> "mrkdwn",
     bearer |-> cfg.slack_bot_token]

\* dict.get(key): None when the key is missing
DictGet(has, v) == IF has THEN v ELSE PyNone

\* mutant: a reply without an ok field counts as delivered
SendResult_missing_ok(rep) ==
    IF rep.kind = "dict"
    THEN IF rep.has_ok /\ ~Truthy(rep.ok)
         THEN [raised |-> FALSE, ok |-> FALSE, exc |-> <<>>,
               error |-> DictGet(rep.has_error, rep.error)]
         ELSE [raised |-> FALSE, ok |-> TRUE, exc |-> <<>>, error |-> PyNone]
    ELSE [raised |-> FALSE, ok |-> FALSE, exc |-> <<>>, error |-> PyStr(rep.exc)]

\* what send_to_slack returns, or raises, once client.post is over
SendResult(rep) ==
    IF rep.kind = "dict"
    THEN IF ~Truthy(DictGet(rep.has_ok, rep.ok))
         THEN [raised |-> FALSE, ok |-> FALSE, exc |-> <<>>,
               error |-> DictGet(rep.has_error, rep.error)]
         ELSE [raised |-> FALSE, ok |-> TRUE, exc |-> <<>>, error |-> PyNone]
    ELSE [raised |-> FALSE, ok |-> FALSE, exc |-> <<>>, error |-> PyStr(rep.exc)]

(***************************************************************************)
(* catch_all_middleware: the response                                      *)
(***************************************************************************)
S_ok ==
    <<"o","k">>
S_warning ==
    <<"w","a","r","n","i","n","g">>

\* mutant: the message always names the configured default channel
MessageChannel_default(slack_channel_id, cfg) ==
    cfg.slack_channel_id

\* channel = slack_channel_id or config.slack.channel_id
MessageChannel(slack_channel_id, cfg) ==
    PyOr(slack_channel_id, PyStr(cfg.slack_channel_id)).s

\* mutant: the success message never mentions the custom channel
SuccessMessage_plain(slack_channel_id) ==
    M_success

SuccessMessage(slack_channel_id) ==
    IF Truthy(slack_channel_id)
    THEN M_success \o M_custom_channel \o slack_channel_id.s \o M_close
    ELSE M_success

\* the elif chain evaluates error.lower() on a truthy error that matched no
\* literal: an AttributeError unless error is a str, caught by nothing
ClassifyRaises(ok, err) ==
    ~ok /\ Truthy(err) /\ err.t # "str"

\* the keys the failure branch adds, for an error on which it does not raise
FailureContent(slack_channel_id, err, cfg) ==
    IF PyEqStr(err, S_channel_not_found)
    THEN "message" :> (M_not_found \o MessageChannel(slack_channel_id, cfg))
    ELSE IF PyEqStr(err, S_not_in_channel)
    THEN "message" :> (M_not_in \o MessageChannel(slack_channel_id, cfg))
    ELSE IF PyEqStr(err, S_channel_is_archived)
    THEN "message" :> (M_archived \o MessageChannel(slack_channel_id, cfg))
    ELSE IF Truthy(err) /\ Contains(S_channel, Lower(err.s))
    THEN "message" :> (M_channel_error \o err.s \o M_channel_error_sep
                         \o MessageChannel(slack_channel_id, cfg))
    ELSE ("message" :>
             (IF Truthy(slack_channel_id)
              THEN M_failed \o M_attempted \o slack_channel_id.s \o M_close
              ELSE M_failed))
         @@ (IF Truthy(err) THEN "slack_error" :> err ELSE <<>>)

response_content(method, path, slack_channel_id, ok, err, cfg) ==
    [status |-> IF ok THEN S_ok ELSE S_warning, method |-> method, path |-> path]
    @@ (IF Truthy(slack_channel_id)
        THEN "slack_channel_override" :> slack_channel_id.s
        ELSE <<>>)
    @@ (IF ok
        THEN "message" :> SuccessMessage(slack_channel_id)
        ELSE FailureContent(slack_channel_id, err, cfg))

JSONResponse(status_code, content, by) ==
    [status_code |-> status_code, content |-> content, by |-> by]

\* mutant: a failed send is tried again
AfterSend_retry(ok) == IF ok THEN "respond" ELSE "forward"

\* after the try around send_to_slack the middleware goes on to the response
AfterSend(ok) == "respond"

\* mutant: the manual trigger is handed on to its route
call_next_for_test_slack(req) ==
    req.method = "POST" /\ req.path = "/slack/test"

\* whether the middleware hands the request to route dispatch: it holds the
\* call_next parameter and never calls it
call_next_invoked(req) == FALSE

(***************************************************************************)
(* The routes, which run only when call_next dispatches to them.           *)
(***************************************************************************)
RouteOf(method, path) ==
    IF method = "GET" /\ path = "/" THEN "root"
    ELSE IF method = "GET" /\ path = "/health" THEN "health_check"
    ELSE IF method = "POST" /\ path = "/slack/test" THEN "test_slack"
    ELSE "catch_all"

TestHeaders == <<<<"test", "manual message">>>>

\* the outcome of dispatching req: the response, the payloads posted on the
\* way, and whether a route body ran (a body that is no SlackMessage is
\* rejected before test_slack runs)
Dispatch(req, cfg) ==
    IF RouteOf(req.method, req.path) = "test_slack"
    THEN IF ~req.body.msg.valid
         THEN [response |-> JSONResponse(422, <<>>, "validation"),
               posted |-> <<>>, ran |-> 0]
         ELSE IF req.body.msg.key # cfg.secret_key
         THEN [response |-> JSONResponse(401, "error" :> M_invalid_key, "test_slack"),
               posted |-> <<>>, ran |-> 1]
         ELSE [response |-> JSONResponse(200, "status" :> M_sent, "test_slack"),
               posted |-> <<payload(Lit(req.body.msg.text), "POST", "/slack/test",
                                    TestHeaders, PyNone, cfg)>>,
               ran |-> 1]
    ELSE [response |-> JSONResponse(200, <<>>, RouteOf(req.method, req.path)),
          posted |-> <<>>, ran |-> 1]

(***************************************************************************)
(* The request task.                                                       *)
(***************************************************************************)
Init ==
    /\ config \in Configs
    /\ request \in Requests
    /\ pc = "capture"
    /\ body_text = <<>>
    /\ posts = <<>>
    /\ reply = NoReply
    /\ res = FALSE
    /\ error = PyNone
    /\ responses = <<>>
    /\ call_next_calls = 0
    /\ route_runs = 0

\* lines 75-95: method, path, headers and channel_id are read off the
\* request; the body is read and turned into body_text
Capture ==
    /\ pc = "capture"
    /\ body_text' = BodyText(request.body)
    /\ pc' = "forward"
    /\ UNCHANGED <<config, request, posts, reply, res, error, responses,
                   call_next_calls, route_runs>>

\* line 98 up to the await in send_to_slack: the payload is given to client.post
Forward ==
    /\ pc = "forward"
    /\ posts' = Append(posts, payload(body_text, request.method, request.path,
                                      request.headers, request.channel_id, config))
    /\ pc' = "await"
    /\ UNCHANGED <<config, request, body_text, reply, res, error, responses,
                   call_next_calls, route_runs>>

\* client.post is over; send_to_slack returns and the middleware binds res, error
PostCompletes ==
    /\ pc = "await"
    /\ \E rep \in Replies :
          LET r == SendResult(rep) IN
          /\ reply' = rep
          /\ res' = (IF r.raised THEN FALSE ELSE r.ok)
          /\ error' = (IF r.raised THEN PyStr(r.exc) ELSE r.error)
          /\ pc' = AfterSend(IF r.raised THEN FALSE ELSE r.ok)
    /\ UNCHANGED <<config, request, body_text, posts, responses,
                   call_next_calls, route_runs>>

\* lines 104-142: the response is built and returned
Respond ==
    /\ pc = "respond"
    /\ IF call_next_invoked(request)
       THEN LET d == Dispatch(request, config) IN
            /\ call_next_calls' = call_next_calls + 1
            /\ route_runs' = route_runs + d.ran
            /\ posts' = posts \o d.posted
            /\ responses' = Append(responses, d.response)
            /\ pc' = "done"
       ELSE /\ IF ClassifyRaises(res, error)
               THEN /\ pc' = "crashed"
                    /\ responses' = responses
               ELSE /\ pc' = "done"
                    /\ responses' = Append(responses,
                          JSONResponse(200,
                              response_content(request.method, request.path,
                                  request.channel_id, res, error, config),
                              "catch_all_middleware"))
            /\ UNCHANGED <<posts, call_next_calls, route_runs>>
    /\ UNCHANGED <<config, request, body_text, reply, res, error>>

Next == Capture \/ Forward \/ PostCompletes \/ Respond

Spec == Init /\ [][Next]_vars

(***************************************************************************)
(* Properties.                                                             *)
(***************************************************************************)
Finished == pc \in {"done", "crashed"}

ManualTrigger == request.method = "POST" /\ request.path = "/slack/test"

\* the request carries a SlackMessage whose key is (not) the configured secret
KeyMatches == request.body.msg.valid /\ request.body.msg.key = config.secret_key
KeyWrong == request.body.msg.valid /\ request.body.msg.key # config.secret_key

\* the query parameter channel_id is on the request
OverridePresent == request.channel_id.t = "str"
OverrideGiven == OverridePresent /\ request.channel_id.s # <<>>

\* the override if one was given, the configured default otherwise
ResolvedChannel ==
    IF OverrideGiven THEN request.channel_id.s ELSE config.slack_channel_id

\* C1: every request ends with exactly one response and no crash of the
\* handler; the status is 401 for POST /slack/test with a wrong key and 200
\* for everything else.
C1_OneResponse ==
    Finished =>
        /\ pc = "done"
        /\ Len(responses) = 1
        /\ responses[1].status_code = (IF ManualTrigger /\ KeyWrong THEN 401 ELSE 200)

\* C2: POST /slack/test with a wrong key is answered 401 {"error": "Invalid
\* key"}, and no payload is posted at any point of its handling.
C2_InvalidKey ==
    (ManualTrigger /\ KeyWrong) =>
        /\ posts = <<>>
        /\ Finished =>
              /\ Len(responses) = 1
              /\ responses[1].status_code = 401
              /\ DOMAIN responses[1].content = {"error"}
              /\ responses[1].content["error"] = M_invalid_key

\* C3: POST /slack/test with the right key posts the request's text under the
\* labels "POST" and "/slack/test" and is answered {"status": "Message sent
\* to Slack"}, whatever the post did.
C3_ManualSend ==
    (ManualTrigger /\ KeyMatches /\ Finished) =>
        /\ \E k \in DOMAIN posts :
              /\ posts[k].text.method = "POST"
              /\ posts[k].text.path = "/slack/test"
              /\ posts[k].text.message = Lit(request.body.msg.text)
        /\ Len(responses) = 1
        /\ DOMAIN responses[1].content = {"status"}
        /\ responses[1].content["status"] = M_sent

\* the client.post of the request was answered with a JSON object whose ok
\* is falsy or missing
RemoteRejection == reply.kind = "dict" /\ ~Truthy(DictGet(reply.has_ok, reply.ok))

\* C4: when Slack rejects the post with error "channel_not_found", the
\* response is a warning whose message names the resolved channel as not
\* found, and that channel is the one that was put in the posted payload.
C4_ChannelNotFound ==
    (Finished /\ RemoteRejection /\ reply.has_error
        /\ reply.error = PyStr(S_channel_not_found)) =>
        /\ pc = "done"
        /\ Len(responses) = 1
        /\ responses[1].content["status"] = S_warning
        /\ responses[1].content["message"] = M_not_found \o ResolvedChannel
        /\ Len(posts) = 1
        /\ posts[1].channel = ResolvedChannel

C4_Witness ==
    /\ pc = "done"
    /\ RemoteRejection /\ reply.has_error /\ reply.error = PyStr(S_channel_not_found)
    /\ OverrideGiven
    /\ responses[1].content["message"] = M_not_found \o S_C1OVERRIDE

\* C5 as claimed: whenever the channel_id parameter is present and the forward
\* succeeds, the response is ok, echoes the parameter as
\* slack_channel_override and mentions the custom channel in its message.
C5_OverridePresent ==
    (Finished /\ OverridePresent /\ res) =>
        /\ pc = "done"
        /\ Len(responses) = 1
        /\ responses[1].content["status"] = S_ok
        /\ "slack_channel_override" \in DOMAIN responses[1].content
        /\ responses[1].content["slack_channel_override"] = request.channel_id.s
        /\ Contains(M_custom_channel \o request.channel_id.s,
                    responses[1].content["message"])

\* C5 amended: the same, for a channel_id parameter that is present with a
\* non-empty value.
C5_OverrideGiven ==
    (Finished /\ OverrideGiven /\ res) =>
        /\ pc = "done"
        /\ Len(responses) = 1
        /\ responses[1].content["status"] = S_ok
        /\ "slack_channel_override" \in DOMAIN responses[1].content
        /\ responses[1].content["slack_channel_override"] = request.channel_id.s
        /\ Contains(M_custom_channel \o request.channel_id.s,
                    responses[1].content["message"])

C5_Witness ==
    /\ pc = "done"
    /\ OverrideGiven
    /\ res
    /\ responses[1].content["slack_channel_override"] = S_C1OVERRIDE

\* the indices at which a truncated body is compared with the decoded one
SampleIndices == {1, 2, MaxBodyChars - 1, MaxBodyChars}

\* C6: body_text is defined for every body: the could-not-read marker for an
\* unreadable body, the empty marker for an empty one, the binary marker for
\* bytes that are not UTF-8, the decoded text itself up to 35000 characters,
\* and its first 35000 characters followed by the truncation marker beyond.
C6_BodyText ==
    (pc # "capture") =>
        LET b == request.body
            d == decode(b.bytes)
        IN
        /\ body_text # <<>>
        /\ ~b.readable => body_text = Lit(S_could_not_read_body)
        /\ (b.readable /\ b.bytes = <<>>) => body_text = Lit(S_empty_body)
        /\ (b.readable /\ b.bytes # <<>> /\ ~d.ok) => body_text = Lit(S_binary_data)
        /\ (b.readable /\ b.bytes # <<>> /\ d.ok /\ TextLen(d.text) <= MaxBodyChars)
              => body_text = d.text
        /\ (b.readable /\ b.bytes # <<>> /\ d.ok /\ TextLen(d.text) > MaxBodyChars)
              => /\ TextLen(body_text) = MaxBodyChars + Len(S_truncated)
                 /\ \A k \in SampleIndices : CharAt(body_text, k) = CharAt(d.text, k)
                 /\ \A k \in 1..Len(S_truncated) :
                       CharAt(body_text, MaxBodyChars + k) = S_truncated[k]
        \* particular bodies, spelled out
        /\ (b.readable /\ b.bytes \in {<<Run(U_FF, 1)>>, <<Run(U_C3, 1)>>,
                                       <<Run(U_A9, 1)>>, <<Run(U_C3, 1), Run("a", 1)>>})
              => body_text = Lit(S_binary_data)
        /\ (b.readable /\ b.bytes = <<Run(U_C3, 1), Run(U_A9, 1)>>)
              => body_text = <<Run(C_E9, 1)>>
        /\ (b.readable /\ b.bytes = <<Run(U_E9, MaxBodyChars)>>)
              => body_text = <<Run(C_E9, MaxBodyChars)>>
        /\ (b.readable /\ b.bytes = <<Run("a", MaxBodyChars + 1)>>)
              => body_text = <<Run("a", MaxBodyChars)>> \o Lit(S_truncated)

C6_Witness ==
    /\ pc = "forward"
    /\ request.body.readable
    /\ request.body.bytes = <<Run("b", 1), Run(U_E9, MaxBodyChars)>>
    /\ TextLen(body_text) = MaxBodyChars + Len(S_truncated)
    /\ CharAt(body_text, MaxBodyChars) = C_E9
    /\ CharAt(body_text, MaxBodyChars + 1) = "."

\* C7: at most one payload is posted per request; once a post has failed the
\* task is at the response and the number of posts stays one.
C7_AtMostOnePost ==
    /\ Len(posts) <= 1
    /\ pc \in {"capture", "forward"} => posts = <<>>
    /\ (reply.kind # "none" /\ ~res) =>
          /\ pc \in {"respond", "done", "crashed"}
          /\ Len(posts) = 1

C7_Witness ==
    /\ pc = "done"
    /\ reply.kind = "raises"
    /\ ~res
    /\ Len(posts) = 1

\* the reply is a JSON object whose ok is one of the truthy values considered
ReplyOk == reply.kind = "dict" /\ reply.has_ok /\ reply.ok \in {PyBool(TRUE), PyInt(1)}

\* C8: send_to_slack returns (True, None) exactly for a parsed reply with a
\* truthy ok, (False, the reply's error field) for a falsy or missing ok,
\* (False, str(e)) when the post or the parsing raises; never success with
\* an error, and never an exception to its caller.
C8_SendResult ==
    (reply.kind # "none") =>
        /\ res <=> ReplyOk
        /\ res => error = PyNone
        /\ (reply.kind = "dict" /\ ~ReplyOk) =>
              error = (IF reply.has_error THEN reply.error ELSE PyNone)
        /\ (reply.kind \in {"raises", "not_json", "not_dict"}) =>
              (~res /\ error = PyStr(reply.exc))
        /\ ~SendResult(reply).raised

C8_Witness ==
    /\ pc = "done"
    /\ reply.kind = "dict"
    /\ ~reply.has_ok
    /\ ~res
    /\ error = PyStr(S_invalid_auth)

\* the message the classification rules give for error e
RuleMessage(e) ==
    IF PyEqStr(e, S_channel_not_found) THEN M_not_found \o ResolvedChannel
    ELSE IF PyEqStr(e, S_not_in_channel) THEN M_not_in \o ResolvedChannel
    ELSE IF PyEqStr(e, S_channel_is_archived) THEN M_archived \o ResolvedChannel
    ELSE IF e.t = "str" /\ Contains(S_channel, Lower(e.s))
    THEN M_channel_error \o e.s \o M_channel_error_sep \o ResolvedChannel
    ELSE IF OverrideGiven
    THEN M_failed \o M_attempted \o request.channel_id.s \o M_close
    ELSE M_failed

\* error e falls through to the generic failed-to-send rule
GenericRule(e) ==
    /\ ~PyEqStr(e, S_channel_not_found)
    /\ ~PyEqStr(e, S_not_in_channel)
    /\ ~PyEqStr(e, S_channel_is_archived)
    /\ ~(e.t = "str" /\ Contains(S_channel, Lower(e.s)))

\* C9: every forward failure is answered with a warning carrying the
\* request's method and path and the message of the first matching rule;
\* slack_error is present exactly in the generic rule with a non-empty error,
\* and is then the raw error.
C9_Classification ==
    (Finished /\ reply.kind # "none" /\ ~res) =>
        /\ pc = "done"
        /\ Len(responses) = 1
        /\ responses[1].content["status"] = S_warning
        /\ responses[1].content["method"] = request.method
        /\ responses[1].content["path"] = request.path
        /\ responses[1].content["message"] = RuleMessage(error)
        /\ ("slack_error" \in DOMAIN responses[1].content)
              <=> (GenericRule(error) /\ Truthy(error))
        /\ ("slack_error" \in DOMAIN responses[1].content)
              => responses[1].content["slack_error"] = error

\* C10: call_next is never invoked and no route body runs; every response is
\* the middleware's, and the only post is the middleware's, carrying the
\* request's method, path and captured body.
C10_NoDispatch ==
    /\ call_next_calls = 0
    /\ route_runs = 0
    /\ \A k \in DOMAIN responses : responses[k].by = "catch_all_middleware"
    /\ pc = "done" => Len(responses) = 1
    /\ Len(posts) <= 1
    /\ \A k \in DOMAIN posts :
          /\ posts[k].text.method = request.method
          /\ posts[k].text.path = request.path
          /\ posts[k].text.message = body_text

C10_Witness ==
    /\ pc = "done"
    /\ ManualTrigger
    /\ KeyMatches
    /\ route_runs = 0
    /\ Len(posts) = 1
    /\ responses[1].by = "catch_all_middleware"
====
